---- MODULE Spec2Model ----
(***************************************************************************)
(* Model of the rozet task coordination engine:                            *)
(*   - FileLockManager  (orchestrator/core/file_locking.py)                *)
(*   - Coordinator      (orchestrator/core/coordinator.py)                 *)
(*   - TaskPlanner      (orchestrator/core/task_planner.py)                *)
(*   - LocalWorker._verify_files (orchestrator/workers/local_worker.py)    *)
(*                                                                         *)
(* Time is a discrete clock `now`; every read of time.time() returns the   *)
(* current value of the clock.  One unit of the clock is one second, the   *)
(* 10ms poll sleep is below the granularity of the clock, so a sleeping    *)
(* caller may wake before the clock moves.                                 *)
(***************************************************************************)
EXTENDS Integers, Sequences, FiniteSets, TLC

VARIABLES
    now,            \* the clock read by time.time()
    locks,          \* FileLockManager._locks : normalized path -> FileLock
    pc,             \* position of every bare caller of the lock manager
    call,           \* arguments and locals of a caller's running acquire_lock
    last,           \* what the step just taken returned or raised
    held,           \* keys a caller acquired and has not released itself
    disciplined,    \* no expiring lock taken, no release of a key not held
    cpc,            \* position of every coordinator in execute_tasks
    tasks,          \* the task list handed to execute_tasks
    ti,             \* index of the task of the outer for loop
    fi,             \* index of the file of the inner for loop
    ri,             \* index of the file of a running release loop
    locked_files,   \* the local list locked_files
    results,        \* the local list results
    cstart,         \* start_time of the coordinator's running acquire_lock
    pending,        \* exception in flight while the finally block runs
    timed_out,      \* index of the current task once it had a LockTimeoutError, else 0
    base,           \* Len(results) when the current task started
    wlog,           \* worker.execute invocations: task index and outcome
    observability,  \* Coordinator._observability: the sink attached, if any
    notes,          \* the notifications the sink of a coordinator took, in order
    p_in,           \* planner input: request and completion outcome
    p_out,          \* planner output
    v_in,           \* _verify_files input: result and files on disk
    v_out,          \* _verify_files output
    u_in,           \* _process_tool_usage input: tools_used and result_data
    u_out           \* _process_tool_usage output

lockVars  == <<now, locks, pc, call, last, held, disciplined>>
coordVars == <<cpc, tasks, ti, fi, ri, locked_files, results, cstart,
               pending, timed_out, base, wlog, observability, notes>>
planVars  == <<p_in, p_out>>
verVars   == <<v_in, v_out>>
toolVars  == <<u_in, u_out>>
vars      == <<now, locks, pc, call, last, held, disciplined,
               cpc, tasks, ti, fi, ri, locked_files, results, cstart,
               pending, timed_out, base, wlog, observability, notes,
               p_in, p_out, v_in, v_out, u_in, u_out>>

----------------------------------------------------------------------------
(* Bounds *)

MaxTime == 2
MaxTimeout == 1
MaxExpiry == 1

----------------------------------------------------------------------------
(* Paths *)

Threads == {"t1", "t2"}
Coords == {"c1", "c2"}

RawPaths == {"a.txt", "./a.txt", "b.txt"}
NormKeys == {"/cwd/a.txt", "/cwd/b.txt"}

\* str(Path(file_path).resolve()) with the process working directory /cwd
Normalize(p) ==
    CASE p = "a.txt"   -> "/cwd/a.txt"
      [] p = "./a.txt" -> "/cwd/a.txt"
      [] p = "b.txt"   -> "/cwd/b.txt"

----------------------------------------------------------------------------
(* FileLock and the lock table *)

NoExpiry == -1

NoLock == [file_path |-> "", acquired_at |-> 0, expiry |-> NoExpiry, by |-> ""]

\* FileLock.__init__ ; `by` identifies the caller that was handed the object
FileLock(path, expiry, t, who) ==
    [file_path |-> path, acquired_at |-> t, expiry |-> expiry, by |-> who]

\* is_expired that never reports an expiry
IsExpiredNever(l, t) == FALSE

\* FileLock.is_expired
IsExpired(l, t) ==
    IF l.expiry = NoExpiry THEN FALSE ELSE (t - l.acquired_at) > l.expiry

\* the test dropped: a present record does not stop the caller
CanAcquireAlways(existing) == TRUE

\* acquire_lock, the test `if not existing_lock`
CanAcquire(existing) == existing = NoLock

\* a pass that treats the table as one lock: a live record under any key
\* stops the caller
TryAcquireGlobal(table, path, expiry, t, who) ==
    IF \A p \in NormKeys : table[p] = NoLock \/ IsExpired(table[p], t)
    THEN [table  |-> [table EXCEPT ![path] = FileLock(path, expiry, t, who)],
          ok     |-> TRUE,
          purged |-> table[path] # NoLock]
    ELSE [table  |-> table, ok |-> FALSE, purged |-> FALSE]

\* acquire_lock, one pass of the body of `with self._manager_lock`
\* result: the new table, whether a lock was returned, whether an expired
\* record was removed
TryAcquire(table, path, expiry, t, who) ==
    LET found    == table[path]
        purge    == found # NoLock /\ IsExpired(found, t)
        existing == IF purge THEN NoLock ELSE found
    IN  IF CanAcquire(existing)
        THEN [table  |-> [table EXCEPT ![path] = FileLock(path, expiry, t, who)],
              ok     |-> TRUE,
              purged |-> purge]
        ELSE [table  |-> table, ok |-> FALSE, purged |-> FALSE]

\* the test written with > instead of >=
TimedOutStrict(start, t, timeout) == (t - start) > timeout

\* acquire_lock, the test `elapsed >= timeout`
TimedOut(start, t, timeout) == (t - start) >= timeout

\* LockTimeoutError.__init__
LockTimeoutError(path, timeout) == [file_path |-> path, timeout |-> timeout]

\* release_lock
ReleaseLock(table, file_path) ==
    LET normalized_path == Normalize(file_path)
    IN  IF table[normalized_path] # NoLock
        THEN [table EXCEPT ![normalized_path] = NoLock]
        ELSE table

\* a release that deletes without looking: `del` of a missing key raises
ReleaseLockUnguarded(table, file_path) ==
    LET normalized_path == Normalize(file_path)
    IN  IF table[normalized_path] # NoLock
        THEN [table |-> ReleaseLock(table, file_path), outcome |-> "released"]
        ELSE [table |-> table, outcome |-> "KeyError"]

\* release_lock as its caller sees it: the table it leaves and what it did -
\* "released" (line 121), or "not_held" for the warning of lines 124-127;
\* neither branch raises
ReleaseLockCall(table, file_path) ==
    LET normalized_path == Normalize(file_path)
    IN  IF table[normalized_path] # NoLock
        THEN [table |-> ReleaseLock(table, file_path), outcome |-> "released"]
        ELSE [table |-> ReleaseLock(table, file_path), outcome |-> "not_held"]

\* is_locked: the returned value and the table it leaves
IsLocked(table, file_path, t) ==
    LET normalized_path == Normalize(file_path)
        lock == table[normalized_path]
    IN  IF lock = NoLock
        THEN [value |-> FALSE, table |-> table]
        ELSE IF IsExpired(lock, t)
             THEN [value |-> FALSE,
                   table |-> [table EXCEPT ![normalized_path] = NoLock]]
             ELSE [value |-> TRUE, table |-> table]

\* a sweep that drops every record
CleanupEveryLock(table, t) ==
    LET expired_paths == {p \in NormKeys : table[p] # NoLock /\ IsExpired(table[p], t)}
    IN  [count |-> Cardinality(expired_paths),
         table |-> [p \in NormKeys |-> NoLock]]

\* cleanup_expired_locks: the returned count and the table it leaves
CleanupExpiredLocks(table, t) ==
    LET expired_paths == {p \in NormKeys : table[p] # NoLock /\ IsExpired(table[p], t)}
    IN  [count |-> Cardinality(expired_paths),
         table |-> [p \in NormKeys |-> IF p \in expired_paths THEN NoLock ELSE table[p]]]

----------------------------------------------------------------------------
(* Callers of the lock manager *)

Timeouts == 0..MaxTimeout
Expiries == {NoExpiry} \cup (1..MaxExpiry)

\* the locals of a running acquire_lock: file_path is kept by a lock() scope
\* only, acquire_lock itself works on normalized_path after line 79
NoCall == [file_path |-> "", normalized_path |-> "", timeout |-> 0,
           expiry |-> NoExpiry, start_time |-> 0, scoped |-> FALSE]

\* what the step just taken returned or raised to its caller: the outcome
\* of an acquire_lock, of a lock() scope or of a release_lock, and the number
\* that cleanup_expired_locks returned
NoEvent == [who |-> "", kind |-> "", file_path |-> "", timeout |-> 0,
            purged |-> FALSE, count |-> 0]

Event(who, kind, path, timeout, purged) ==
    [who |-> who, kind |-> kind, file_path |-> path, timeout |-> timeout,
     purged |-> purged, count |-> 0]

\* the keys of thread t after it acquired or released; the record is kept
\* only as long as all callers follow the discipline
HeldAfter(h, d) == IF d THEN h ELSE [t \in Threads |-> {}]

\* time passes
Tick ==
    /\ now < MaxTime
    /\ now' = now + 1
    /\ last' = NoEvent
    /\ UNCHANGED <<locks, pc, call, held, disciplined>>

\* a caller enters acquire_lock(key, timeout, expiry): lines 79-80
StartAcquire(t) ==
    /\ pc[t] = "idle"
    /\ \E k \in RawPaths, to \in Timeouts, e \in Expiries :
          /\ call' = [call EXCEPT ![t] =
                        [file_path |-> "", normalized_path |-> Normalize(k),
                         timeout |-> to, expiry |-> e,
                         start_time |-> now, scoped |-> FALSE]]
          /\ disciplined' = (disciplined /\ e = NoExpiry)
          /\ held' = HeldAfter(held, disciplined /\ e = NoExpiry)
    /\ pc' = [pc EXCEPT ![t] = "acq_poll"]
    /\ last' = NoEvent
    /\ UNCHANGED <<now, locks>>

\* a caller enters `with manager.lock(key, timeout, expiry)`: lines 173-175
StartScope(t) ==
    /\ pc[t] = "idle"
    /\ \E k \in RawPaths, to \in Timeouts, e \in Expiries :
          /\ call' = [call EXCEPT ![t] =
                        [file_path |-> k, normalized_path |-> Normalize(k),
                         timeout |-> to, expiry |-> e,
                         start_time |-> now, scoped |-> TRUE]]
          /\ disciplined' = (disciplined /\ e = NoExpiry)
          /\ held' = HeldAfter(held, disciplined /\ e = NoExpiry)
    /\ pc' = [pc EXCEPT ![t] = "acq_poll"]
    /\ last' = NoEvent
    /\ UNCHANGED <<now, locks>>

\* acquire_lock, lines 83-101: one pass under the manager mutex; inside a
\* lock() scope the body starts and only file_path stays in use
Poll(t) ==
    /\ pc[t] = "acq_poll"
    /\ LET c == call[t]
           r == TryAcquire(locks, c.normalized_path, c.expiry, now, t)
       IN  /\ locks' = r.table
           /\ IF r.ok
              THEN /\ held' = HeldAfter([held EXCEPT ![t] = @ \cup {c.normalized_path}],
                                        disciplined)
                   /\ last' = Event(t, "lock", c.normalized_path, c.timeout, r.purged)
                   /\ IF c.scoped
                      THEN /\ pc' = [pc EXCEPT ![t] = "body"]
                           /\ call' = [call EXCEPT ![t] =
                                         [NoCall EXCEPT !.file_path = c.file_path,
                                                        !.scoped = TRUE]]
                      ELSE /\ pc' = [pc EXCEPT ![t] = "idle"]
                           /\ call' = [call EXCEPT ![t] = NoCall]
              ELSE /\ pc' = [pc EXCEPT ![t] = "acq_check"]
                   /\ last' = NoEvent
                   /\ UNCHANGED <<held, call>>
    /\ UNCHANGED <<now, disciplined>>

\* a local `lock` that counts as set whatever acquire_lock did
ScopeLockLocalAlways(acquired) == TRUE

\* lock(), lines 173-175: the local `lock` is None until acquire_lock has
\* returned; line 178 tests it
ScopeLockLocal(acquired) == acquired

\* a lock() scope that forgets the release
ScopeFinallyKeeps(table, lock_set, file_path) == table

\* lock(), lines 177-179: what the finally block does to the table
ScopeFinally(table, lock_set, file_path) ==
    IF lock_set THEN ReleaseLock(table, file_path) ELSE table

\* a loop without the timeout check: the caller always goes on to sleep
CheckTimeoutNever(t) ==
    /\ pc[t] = "acq_check"
    /\ pc' = [pc EXCEPT ![t] = "acq_sleep"]
    /\ last' = NoEvent
    /\ UNCHANGED <<now, locks, call, held, disciplined>>

\* acquire_lock, lines 104-106: the timeout check; a LockTimeoutError leaves
\* a lock() scope through its finally block with `lock` still None
CheckTimeout(t) ==
    /\ pc[t] = "acq_check"
    /\ LET c == call[t]
       IN  IF TimedOut(c.start_time, now, c.timeout)
           THEN LET e == LockTimeoutError(c.normalized_path, c.timeout)
                IN  /\ last' = Event(t, "LockTimeoutError", e.file_path,
                                     e.timeout, FALSE)
                    /\ locks' = IF c.scoped
                                THEN ScopeFinally(locks, ScopeLockLocal(FALSE), c.file_path)
                                ELSE locks
                    /\ pc' = [pc EXCEPT ![t] = "idle"]
                    /\ call' = [call EXCEPT ![t] = NoCall]
           ELSE /\ pc' = [pc EXCEPT ![t] = "acq_sleep"]
                /\ last' = NoEvent
                /\ UNCHANGED <<call, locks>>
    /\ UNCHANGED <<now, held, disciplined>>

\* acquire_lock, line 109: time.sleep(0.01) returns
Sleep(t) ==
    /\ pc[t] = "acq_sleep"
    /\ pc' = [pc EXCEPT ![t] = "acq_poll"]
    /\ last' = NoEvent
    /\ UNCHANGED <<now, locks, call, held, disciplined>>

\* release_lock(key), lines 117-127
Release(t) ==
    /\ pc[t] = "idle"
    /\ \E k \in RawPaths :
          LET r == ReleaseLockCall(locks, k)
          IN  /\ locks' = r.table
              /\ last' = Event(t, r.outcome, Normalize(k), 0, FALSE)
              /\ disciplined' = (disciplined /\ Normalize(k) \in held[t])
              /\ held' = HeldAfter([held EXCEPT ![t] = @ \ {Normalize(k)}],
                                   disciplined /\ Normalize(k) \in held[t])
    /\ UNCHANGED <<now, pc, call>>

\* is_locked(key), lines 138-150
CheckLocked(t) ==
    /\ pc[t] = "idle"
    /\ \E k \in RawPaths : locks' = IsLocked(locks, k, now).table
    /\ last' = NoEvent
    /\ UNCHANGED <<now, pc, call, held, disciplined>>

\* cleanup_expired_locks(), lines 187-198
Cleanup(t) ==
    /\ pc[t] = "idle"
    /\ LET r == CleanupExpiredLocks(locks, now)
       IN  /\ locks' = r.table
           /\ last' = [Event(t, "cleaned", "", 0, FALSE) EXCEPT !.count = r.count]
    /\ UNCHANGED <<now, pc, call, held, disciplined>>

\* the body of a lock() scope returns normally
BodyReturn(t) ==
    /\ pc[t] = "body"
    /\ pc' = [pc EXCEPT ![t] = "exit_ok"]
    /\ last' = NoEvent
    /\ UNCHANGED <<now, locks, call, held, disciplined>>

\* the body of a lock() scope raises
BodyRaise(t) ==
    /\ pc[t] = "body"
    /\ pc' = [pc EXCEPT ![t] = "exit_exc"]
    /\ last' = NoEvent
    /\ UNCHANGED <<now, locks, call, held, disciplined>>

\* lock(), lines 177-179: the finally block, then the scope is left; an
\* exception of the body goes on to the caller
ScopeExit(t) ==
    /\ pc[t] \in {"exit_ok", "exit_exc"}
    /\ locks' = ScopeFinally(locks, ScopeLockLocal(TRUE), call[t].file_path)
    /\ held' = HeldAfter([held EXCEPT ![t] = @ \ {Normalize(call[t].file_path)}],
                         disciplined)
    /\ last' = Event(t, IF pc[t] = "exit_exc" THEN "raised" ELSE "returned",
                     Normalize(call[t].file_path), 0, FALSE)
    /\ pc' = [pc EXCEPT ![t] = "idle"]
    /\ call' = [call EXCEPT ![t] = NoCall]
    /\ UNCHANGED <<now, disciplined>>

----------------------------------------------------------------------------
(* Coordinator.execute_tasks *)

MaxTasks == 2
MaxFiles == 2
MaxCoordTime == 10

CoordTimeout == 5

\* sequences over S of length at most n
SeqsUpTo(S, n) == UNION {[1..k -> S] : k \in 0..n}

\* the dataclass TaskSpec (task_planner.py)
TaskSpec(task_id, description, files, success_criteria, budget, dependencies) ==
    [task_id |-> task_id, description |-> description, files |-> files,
     success_criteria |-> success_criteria, budget |-> budget,
     dependencies |-> dependencies]

\* the paths the tasks declare
TaskPaths == {"a.txt", "b.txt"}

\* task lists handed to execute_tasks: task i is named T<i>
TaskLists ==
    {[i \in 1..Len(fs) |-> TaskSpec("T" \o ToString(i), "task", fs[i], <<>>, "medium", <<>>)] :
        fs \in SeqsUpTo(SeqsUpTo(TaskPaths, MaxFiles), MaxTasks)}

\* task lists whose tasks declare dependencies: a task names no task, or one
\* of T2, T3, ... - a later task of the list, itself, an earlier task or a
\* task the list does not have
DependentTaskLists ==
    {[i \in 1..Len(fs) |->
        TaskSpec("T" \o ToString(i), "task", fs[i][1], <<>>, "medium", fs[i][2])] :
        fs \in UNION {[1..n -> UNION {SeqsUpTo(TaskPaths, 1) \X {<<>>, <<"T" \o ToString(i + 1)>>} :
                                          i \in 1..MaxTasks}] : n \in 0..MaxTasks}}

\* fields of the dataclass WorkerResult that have no default
WorkerResultRequired ==
    {"task_id", "success", "files_modified", "files_created", "tests_run",
     "verification_passed", "errors"}

\* WorkerResult.__init__ accepts the keyword arguments kw
WorkerResultAccepts(kw) == WorkerResultRequired \subseteq DOMAIN kw

\* str(LockTimeoutError)
LockTimeoutStr(e) ==
    "Could not acquire lock for " \o e.file_path \o " within "
        \o ToString(e.timeout) \o ".0s"

\* the keyword arguments of the WorkerResult built for a lock timeout
LockTimeoutResultArgs(task, file_path, e) ==
    [task_id |-> task.task_id, success |-> FALSE,
     files_modified |-> <<>>, files_created |-> <<>>, tests_run |-> <<>>,
     verification_passed |-> FALSE,
     errors |-> <<"Could not acquire lock for " \o file_path \o ": " \o LockTimeoutStr(e)>>,
     logs |-> "Lock timeout: " \o LockTimeoutStr(e)]

\* the keyword arguments of the WorkerResult built in `except Exception`
ExceptionResultArgs(task, exc) ==
    [task_id |-> task.task_id, success |-> FALSE,
     files_modified |-> <<>>, files_created |-> <<>>,
     verification_passed |-> FALSE,
     errors |-> <<exc>>,
     logs |-> "Exception: " \o exc]

\* what a worker returns from execute(task)
WorkerReturned(task, success) ==
    [task_id |-> task.task_id, success |-> success,
     files_modified |-> <<>>, files_created |-> <<>>, tests_run |-> <<>>,
     verification_passed |-> success,
     errors |-> IF success THEN <<>> ELSE <<"worker reported failure">>,
     logs |-> ""]

WorkerException == "boom"

\* what Coordinator(observability=...) is given: nothing, an
\* ObservabilityClient, a sink whose notification calls raise, or a sink
\* that has every method the coordinator calls and records the calls
Sinks == {"none", "client", "raising", "recording"}

\* the event helpers ObservabilityClient defines (observability.py)
ClientMethods ==
    {"session_start", "session_end", "user_message", "task_planned",
     "task_assigned", "task_completed", "tool_requested", "tool_completed"}

\* the outcome of self._observability.<method>(...): "ok", or the str() of
\* the exception the call raises.  send_event swallows delivery failures,
\* so a helper the client defines returns; one it lacks is an AttributeError
Notify(sink, method) ==
    CASE sink = "none"    -> "ok"
      [] sink = "client"  -> IF method \in ClientMethods THEN "ok"
                             ELSE "'ObservabilityClient' object has no attribute '"
                                      \o method \o "'"
      [] sink = "raising" -> "sink down"
      [] sink = "recording" -> "ok"

\* a notification as the sink takes it: the helper called, the index of the
\* task it is about and the success flag it carries (none for task_assigned)
Notification(method, task, success) ==
    [method |-> method, task |-> task, success |-> success]

\* the notifications a sink has taken after self._observability.<method>(...)
NotesAfter(log, sink, method, task, success) ==
    IF sink # "none" /\ Notify(sink, method) = "ok"
    THEN Append(log, Notification(method, task, success))
    ELSE log

\* execute_tasks, line 105: the worker runs for this task
WorkerRuns(lf, files) == lf # <<>> \/ files = <<>>

CurTask(c) == tasks[c][ti[c]]

\* another user of the table calls release_lock(key)
OtherRelease(t) ==
    /\ \E k \in RawPaths : locks' = ReleaseLock(locks, k)
    /\ UNCHANGED <<now, pc, call, last, held, disciplined>>

\* time passes while execute_tasks runs.  The clock is read only inside
\* acquire_lock and only compared with start_time + timeout, so it is
\* observed at instants one timeout apart and only while a coordinator waits
CoordTick ==
    /\ now + CoordTimeout <= MaxCoordTime
    /\ \E c \in Coords : cpc[c] \in {"acq_poll", "acq_check", "acq_sleep"}
    /\ now' = now + CoordTimeout
    /\ UNCHANGED <<locks, pc, call, last, held, disciplined>>

\* line 63: the outer loop takes the next task, or line 137 returns
NextTask(c) ==
    /\ cpc[c] = "next_task"
    /\ IF ti[c] > Len(tasks[c])
       THEN /\ cpc' = [cpc EXCEPT ![c] = "done"]
            /\ UNCHANGED <<locked_files, fi, timed_out, base, pending>>
       ELSE IF Notify(observability[c], "task_assigned") # "ok"
       THEN \* lines 67-72 stand outside the try statement
            /\ pending' = [pending EXCEPT ![c] = "SinkError"]
            /\ cpc' = [cpc EXCEPT ![c] = "raised"]
            /\ UNCHANGED <<locked_files, fi, timed_out, base>>
       ELSE /\ locked_files' = [locked_files EXCEPT ![c] = <<>>]
            /\ fi' = [fi EXCEPT ![c] = 1]
            /\ timed_out' = [timed_out EXCEPT ![c] = 0]
            /\ base' = [base EXCEPT ![c] = Len(results[c])]
            /\ cpc' = [cpc EXCEPT ![c] = "next_file"]
            /\ UNCHANGED pending
    /\ notes' = [notes EXCEPT ![c] =
                    IF ti[c] > Len(tasks[c]) THEN @
                    ELSE NotesAfter(@, observability[c], "task_assigned", ti[c], "none")]
    /\ UNCHANGED <<tasks, observability, ti, ri, results, cstart, wlog, lockVars>>

\* line 78: the inner loop takes the next file and enters acquire_lock
NextFile(c) ==
    /\ cpc[c] = "next_file"
    /\ IF fi[c] > Len(CurTask(c).files)
       THEN /\ cpc' = [cpc EXCEPT ![c] = "after_locks"]
            /\ UNCHANGED cstart
       ELSE /\ cstart' = [cstart EXCEPT ![c] = now]
            /\ cpc' = [cpc EXCEPT ![c] = "acq_poll"]
    /\ UNCHANGED <<tasks, observability, notes, ti, fi, ri, locked_files, results, pending,
                   timed_out, base, wlog, lockVars>>

\* lines 80-83: one pass of acquire_lock under the mutex; on success the
\* file is appended to locked_files and the loop goes on
CPoll(c) ==
    /\ cpc[c] = "acq_poll"
    /\ LET file_path == CurTask(c).files[fi[c]]
           r == TryAcquire(locks, Normalize(file_path), NoExpiry, now, c)
       IN  /\ locks' = r.table
           /\ IF r.ok
              THEN /\ locked_files' = [locked_files EXCEPT ![c] = Append(@, file_path)]
                   /\ fi' = [fi EXCEPT ![c] = @ + 1]
                   /\ cpc' = [cpc EXCEPT ![c] = "next_file"]
              ELSE /\ cpc' = [cpc EXCEPT ![c] = "acq_check"]
                   /\ UNCHANGED <<locked_files, fi>>
    /\ UNCHANGED <<tasks, observability, notes, ti, ri, results, cstart, pending, timed_out, base,
                   wlog, now, pc, call, last, held, disciplined>>

\* a coordinator whose acquire_lock never gives up
CCheckTimeoutNever(c) ==
    /\ cpc[c] = "acq_check"
    /\ cpc' = [cpc EXCEPT ![c] = "acq_sleep"]
    /\ UNCHANGED <<results, timed_out, ri>>
    /\ UNCHANGED <<tasks, observability, notes, ti, fi, locked_files, cstart, pending, base, wlog,
                   lockVars>>

\* acquire_lock's timeout check; lines 84-98: the LockTimeoutError handler
\* appends a failed result
CCheckTimeout(c) ==
    /\ cpc[c] = "acq_check"
    /\ IF TimedOut(cstart[c], now, CoordTimeout)
       THEN LET file_path == CurTask(c).files[fi[c]]
                e == LockTimeoutError(Normalize(file_path), CoordTimeout)
            IN  /\ results' = [results EXCEPT ![c] =
                         Append(@, LockTimeoutResultArgs(CurTask(c), file_path, e))]
                /\ timed_out' = [timed_out EXCEPT ![c] = ti[c]]
                /\ ri' = [ri EXCEPT ![c] = 1]
                /\ cpc' = [cpc EXCEPT ![c] = "rel_timeout"]
       ELSE /\ cpc' = [cpc EXCEPT ![c] = "acq_sleep"]
            /\ UNCHANGED <<results, timed_out, ri>>
    /\ UNCHANGED <<tasks, observability, notes, ti, fi, locked_files, cstart, pending, base, wlog,
                   lockVars>>

\* acquire_lock, line 109
CSleep(c) ==
    /\ cpc[c] = "acq_sleep"
    /\ cpc' = [cpc EXCEPT ![c] = "acq_poll"]
    /\ UNCHANGED <<tasks, observability, notes, ti, fi, ri, locked_files, results, cstart, pending,
                   timed_out, base, wlog, lockVars>>

\* lines 100-102: release what was locked, then `continue` - which resumes
\* the innermost loop, the loop over task.files
ReleaseAfterTimeout(c) ==
    /\ cpc[c] = "rel_timeout"
    /\ IF ri[c] <= Len(locked_files[c])
       THEN /\ locks' = ReleaseLock(locks, locked_files[c][ri[c]])
            /\ ri' = [ri EXCEPT ![c] = @ + 1]
            /\ UNCHANGED <<fi, cpc>>
       ELSE /\ fi' = [fi EXCEPT ![c] = @ + 1]
            /\ cpc' = [cpc EXCEPT ![c] = "next_file"]
            /\ UNCHANGED <<locks, ri>>
    /\ UNCHANGED <<tasks, observability, notes, ti, locked_files, results, cstart, pending,
                   timed_out, base, wlog, now, pc, call, last, held, disciplined>>

\* lines 105-106: after the loop over the files, call the worker or not
AfterLocks(c) ==
    /\ cpc[c] = "after_locks"
    /\ IF WorkerRuns(locked_files[c], CurTask(c).files)
       THEN /\ cpc' = [cpc EXCEPT ![c] = "in_worker"]
            /\ UNCHANGED ri
       ELSE /\ ri' = [ri EXCEPT ![c] = 1]
            /\ cpc' = [cpc EXCEPT ![c] = "finally"]
    /\ UNCHANGED <<tasks, observability, notes, ti, fi, locked_files, results, cstart, pending,
                   timed_out, base, wlog, lockVars>>

\* lines 106-117: worker.execute returns a result, the sink is told of it
\* and the result is appended
WorkerReturn(c) ==
    /\ cpc[c] = "in_worker"
    /\ \E success \in BOOLEAN :
          /\ LET sent == Notify(observability[c], "worker_completed")
                 kw == ExceptionResultArgs(CurTask(c), sent)
             IN  IF sent = "ok"
                 THEN /\ results' = [results EXCEPT ![c] =
                             Append(@, WorkerReturned(CurTask(c), success))]
                      /\ UNCHANGED pending
                 ELSE \* lines 109-115 raise inside the try statement
                      IF WorkerResultAccepts(kw)
                      THEN /\ results' = [results EXCEPT ![c] = Append(@, kw)]
                           /\ UNCHANGED pending
                      ELSE /\ pending' = [pending EXCEPT ![c] = "TypeError"]
                           /\ UNCHANGED results
          /\ notes' = [notes EXCEPT ![c] =
                          NotesAfter(@, observability[c], "worker_completed", ti[c],
                                     IF success THEN "true" ELSE "false")]
          /\ wlog' = [wlog EXCEPT ![c] =
                        Append(@, [task |-> ti[c],
                                   outcome |-> IF success THEN "success" ELSE "failure"])]
    /\ ri' = [ri EXCEPT ![c] = 1]
    /\ cpc' = [cpc EXCEPT ![c] = "finally"]
    /\ UNCHANGED <<tasks, observability, ti, fi, locked_files, cstart, timed_out,
                   base, lockVars>>

\* lines 119-131: worker.execute raises; the handler builds a WorkerResult,
\* and an exception of that construction leaves the handler
WorkerRaise(c) ==
    /\ cpc[c] = "in_worker"
    /\ LET kw == ExceptionResultArgs(CurTask(c), WorkerException)
       IN  IF WorkerResultAccepts(kw)
           THEN /\ results' = [results EXCEPT ![c] = Append(@, kw)]
                /\ UNCHANGED pending
           ELSE /\ pending' = [pending EXCEPT ![c] = "TypeError"]
                /\ UNCHANGED results
    /\ wlog' = [wlog EXCEPT ![c] = Append(@, [task |-> ti[c], outcome |-> "raised"])]
    /\ ri' = [ri EXCEPT ![c] = 1]
    /\ cpc' = [cpc EXCEPT ![c] = "finally"]
    /\ UNCHANGED <<tasks, observability, notes, ti, fi, locked_files, cstart, timed_out, base, lockVars>>

\* a loop that passes over the task that follows
NextIndexSkip(i) == i + 2

\* line 63: `for task in tasks` goes on to the element that follows
NextIndex(i) == i + 1

\* a release loop that is skipped
FinallyDoneAtOnce(lf, i) == TRUE

\* the release loop of the finally block; when it is done the pending
\* exception leaves execute_tasks, or the outer loop goes on
FinallyDone(lf, i) == i > Len(lf)

\* lines 132-135
Finally(c) ==
    /\ cpc[c] = "finally"
    /\ IF ~FinallyDone(locked_files[c], ri[c])
       THEN /\ locks' = ReleaseLock(locks, locked_files[c][ri[c]])
            /\ ri' = [ri EXCEPT ![c] = @ + 1]
            /\ UNCHANGED <<ti, cpc>>
       ELSE /\ IF pending[c] # "none"
               THEN /\ cpc' = [cpc EXCEPT ![c] = "raised"]
                    /\ UNCHANGED ti
               ELSE /\ ti' = [ti EXCEPT ![c] = NextIndex(@)]
                    /\ cpc' = [cpc EXCEPT ![c] = "next_task"]
            /\ UNCHANGED <<locks, ri>>
    /\ UNCHANGED <<tasks, observability, notes, fi, locked_files, results, cstart, pending,
                   timed_out, base, wlog, now, pc, call, last, held, disciplined>>

----------------------------------------------------------------------------
(* TaskPlanner.plan *)

MaxEntries == 2

DefaultMaxTasks == 6

\* a whitespace-delimited token of the request: its text, the text after
\* token.strip(",.'\"") and whether that names a file (has a "/", does not
\* start with http, ends in .py .md .json .yaml .yml .txt)
Token(text, cleaned, is_file) ==
    [text |-> text, cleaned |-> cleaned, is_file |-> is_file]

Word(w) == Token(w, w, FALSE)

Requests ==
    { <<Word("add"), Word("readme")>>,
      <<Word("fix"), Token("src/app.py,", "src/app.py", TRUE), Word("and"),
        Token("src/app.py", "src/app.py", TRUE), Token("docs/a.md.", "docs/a.md", TRUE)>>,
      <<Word("see"), Token("http://x/y.py", "http://x/y.py", FALSE)>> }

\* the request string: its tokens joined by single blanks
RECURSIVE JoinFrom(_, _)
JoinFrom(toks, i) ==
    IF i > Len(toks) THEN ""
    ELSE IF i = Len(toks) THEN toks[i].text
    ELSE toks[i].text \o " " \o JoinFrom(toks, i + 1)

RequestText(request) == JoinFrom(request, 1)

\* _fallback_plan, lines 155-160: deduplicate while preserving order
RECURSIVE Dedupe(_, _, _)
Dedupe(files, i, unique_files) ==
    IF i > Len(files) THEN unique_files
    ELSE IF \E j \in DOMAIN unique_files : unique_files[j] = files[i]
         THEN Dedupe(files, i + 1, unique_files)
         ELSE Dedupe(files, i + 1, Append(unique_files, files[i]))

\* _fallback_plan, lines 146-153: the tokens that name files
RECURSIVE FileTokens(_, _)
FileTokens(request, i) ==
    IF i > Len(request) THEN <<>>
    ELSE IF request[i].is_file
         THEN <<request[i].cleaned>> \o FileTokens(request, i + 1)
         ELSE FileTokens(request, i + 1)

\* a fallback that hands the request back as the description
FallbackPlanBare(request) ==
    << TaskSpec("T1",
                RequestText(request),
                Dedupe(FileTokens(request, 1), 1, <<>>),
                <<"Request completed and verified">>,
                "medium",
                <<>>) >>

\* _fallback_plan
FallbackPlan(request) ==
    << TaskSpec("T1",
                "Implement user request: " \o RequestText(request),
                Dedupe(FileTokens(request, 1), 1, <<>>),
                <<"Request completed and verified">>,
                "medium",
                <<>>) >>

\* An entry of the "tasks" array.  kind: "dict" for a JSON object, "other"
\* for any value without .get (number, string, character of a string).
\* id_kind: "missing", "null", "str" or "num"; files_kind: "missing", "list",
\* "null" (not iterable)
Entry(kind, id_kind, id_str, id_num, files_kind, files, description) ==
    [kind |-> kind, id_kind |-> id_kind, id_str |-> id_str, id_num |-> id_num,
     files_kind |-> files_kind, files |-> files, description |-> description]

OtherEntry == Entry("other", "missing", "", 0, "missing", <<>>, "")

DictEntries ==
    { Entry("dict", ik[1], ik[2], ik[3], fk, IF fk = "list" THEN <<"a.txt">> ELSE <<>>, " do it ") :
        ik \in { <<"missing", "", 0>>, <<"str", "", 0>>,
                 <<"str", "T1", 0>>, <<"str", "T2", 0>>, <<"num", "", 0>>,
                 <<"num", "", 2>> },
        fk \in {"list", "null"} }

Entries == DictEntries \cup {OtherEntry}

\* A document: the text that is left once fences and surrounding prose are
\* taken away.  kind: "empty", "garbage" (not JSON, no braces), "null",
\* "num", "str", "list" (a JSON array), "obj" (a JSON object).  For an object,
\* tasks_kind says what its "tasks" member is: "missing", "null", "num",
\* "str", "dict" or "list"; entries are the elements of a list, or the
\* characters of a string
Doc(kind, tasks_kind, entries) ==
    [kind |-> kind, tasks_kind |-> tasks_kind, entries |-> entries]

ObjDocs ==
    {Doc("obj", tk, <<>>) : tk \in {"missing", "null", "num", "dict"}}
    \cup {Doc("obj", "str", <<OtherEntry, OtherEntry>>)}
    \cup {Doc("obj", "list", es) : es \in SeqsUpTo(Entries, MaxEntries)}

ScalarDocs ==
    {Doc(k, "missing", <<>>) : k \in {"empty", "garbage", "null", "num", "str"}}

\* the text of a response: prose before, a fence ("none", "json", "plain",
\* or "open" for a ```json fence that is never closed), the document -
\* wrapped or not in the brackets of a one-element JSON array - and prose
\* after
Text(pre, fence, wrapped, doc, post) ==
    [pre |-> pre, fence |-> fence, wrapped |-> wrapped, doc |-> doc, post |-> post]

Texts ==
    {Text(pre, fence, wrapped, doc, post) :
        pre \in BOOLEAN, fence \in {"none", "json", "plain", "open"},
        wrapped \in BOOLEAN, doc \in ObjDocs \cup ScalarDocs, post \in BOOLEAN}

\* lines 81-90: the contents of a closed fence replace the text; with a
\* fence that is not closed the text stays as it is, marker included
ExtractFence(text) ==
    CASE text.fence \in {"json", "plain"} ->
            Text(FALSE, "none", text.wrapped, text.doc, FALSE)
      [] text.fence = "open" ->
            Text(TRUE, "none", text.wrapped, text.doc, text.post)
      [] OTHER -> text

\* the text holds a "{" and, after it, a "}"
HasBraces(text) == text.doc.kind = "obj"

\* raw_text.strip().startswith("{")
StartsWithBrace(text) ==
    ~text.pre /\ ~text.wrapped /\ text.doc.kind = "obj"

\* lines 93-97: what stands between the first "{" and the last "}"
ExtractBraces(text) ==
    IF ~StartsWithBrace(text) /\ HasBraces(text)
    THEN Text(FALSE, "none", FALSE, text.doc, FALSE)
    ELSE text

\* line 102: `not raw_text` after strip()
IsEmptyText(text) ==
    ~text.pre /\ ~text.post /\ ~text.wrapped /\ text.doc.kind = "empty"

\* json.loads: the value, or kind "JSONDecodeError"
JsonLoads(text) ==
    IF text.pre \/ text.post \/ text.doc.kind = "garbage"
    THEN Doc("JSONDecodeError", "missing", <<>>)
    ELSE IF text.wrapped
         THEN Doc("list", "missing", <<>>)
         ELSE IF text.doc.kind = "empty"
              THEN Doc("JSONDecodeError", "missing", <<>>)
              ELSE text.doc

\* line 117: entry.get("task_id") is falsy
IdFalsy(e) ==
    \/ e.id_kind \in {"missing", "null"}
    \/ e.id_kind = "str" /\ e.id_str = ""
    \/ e.id_kind = "num" /\ e.id_num = 0

\* lines 116-123 raise for this entry
EntryFails(e) == e.kind # "dict" \/ e.files_kind = "null"

\* str(description).strip()
Strip(str) == IF str = " do it " THEN "do it" ELSE str

\* lines 116-123: the TaskSpec of an entry, n tasks being collected so far
CoerceEntry(e, n) ==
    TaskSpec(IF IdFalsy(e) THEN "T" \o ToString(n + 1)
             ELSE IF e.id_kind = "num" THEN ToString(e.id_num) ELSE e.id_str,
             Strip(e.description),
             e.files,
             <<>>,
             "medium",
             <<>>)

\* lines 113-127: the loop over tasks_payload
RECURSIVE ParseEntries(_, _, _)
ParseEntries(entries, i, tasks_so_far) ==
    IF i > Len(entries) THEN tasks_so_far
    ELSE IF EntryFails(entries[i])
         THEN ParseEntries(entries, i + 1, tasks_so_far)
         ELSE ParseEntries(entries, i + 1,
                           Append(tasks_so_far, CoerceEntry(entries[i], Len(tasks_so_far))))

\* [: self._max_tasks]
Truncate(seq, n) == SubSeq(seq, 1, IF Len(seq) < n THEN Len(seq) ELSE n)

Returned(plan) == [done |-> TRUE, raised |-> "", plan |-> plan]
Raised(exc) == [done |-> TRUE, raised |-> exc, plan |-> <<>>]

\* line 112: payload.get("tasks", [])[: self._max_tasks] raises
TasksPayloadError(payload) ==
    CASE payload.kind # "obj" -> "AttributeError"
      [] payload.tasks_kind \in {"null", "num", "dict"} -> "TypeError"
      [] OTHER -> ""

\* lines 106-131: from the parsed payload to the returned plan
PlanFromPayload(request, max_tasks, payload) ==
    IF TasksPayloadError(payload) # ""
    THEN Raised(TasksPayloadError(payload))
    ELSE LET parsed == ParseEntries(Truncate(payload.entries, max_tasks), 1, <<>>)
         IN  IF parsed = <<>>
             THEN Returned(FallbackPlan(request))
             ELSE Returned(parsed)

\* TaskPlanner.plan; response is what self._llm.invoke did
Plan(request, max_tasks, response) ==
    IF response.raises
    THEN Returned(FallbackPlan(request))
    ELSE LET raw_text == ExtractBraces(ExtractFence(response.content))
         IN  IF IsEmptyText(raw_text)
             THEN Returned(FallbackPlan(request))
             ELSE LET payload == JsonLoads(raw_text)
                  IN  IF payload.kind = "JSONDecodeError"
                      THEN Returned(FallbackPlan(request))
                      ELSE PlanFromPayload(request, max_tasks, payload)

NoText == Text(FALSE, "none", FALSE, Doc("empty", "missing", <<>>), FALSE)

Responses ==
    {[raises |-> TRUE, content |-> NoText]}
    \cup {[raises |-> FALSE, content |-> t] : t \in Texts}

NotPlanned == [done |-> FALSE, raised |-> "", plan |-> <<>>]

\* a caller calls plan(request)
CallPlan ==
    /\ ~p_out.done
    /\ p_out' = Plan(p_in.request, p_in.max_tasks, p_in.response)
    /\ UNCHANGED p_in

----------------------------------------------------------------------------
(* LocalWorker._verify_files *)

MaxClaimed == 2

\* longest tools_used list of a reply
MaxTools == 2

\* the working_dir handed to _verify_files
WorkingDir == "/work"

\* the paths a result may claim: relative ones and an absolute one
VerifyPaths == {"x.txt", "y.txt", "/etc/hosts"}

IsAbsolute(file_path) == file_path \in {"/etc/hosts"}

\* lines 277, 284: working_dir / file_path; joining an absolute path gives
\* that path
JoinPath(working_dir, file_path) ==
    IF IsAbsolute(file_path) THEN file_path ELSE working_dir \o "/" \o file_path

\* the files that may exist on disk, as full paths
DiskPaths == {JoinPath(WorkingDir, p) : p \in VerifyPaths}

\* lines 274-288: the claimed paths for which (working_dir / path).exists(),
\* in order
Verified(claimed, disk) ==
    LET Exists(file_path) == JoinPath(WorkingDir, file_path) \in disk
    IN  SelectSeq(claimed, Exists)

\* line 295: the test that decides whether verification failed; it is
\* evaluated after lines 291-292 stored the verified lists in result
VerificationFailed(result, verified_modified, verified_created) ==
    /\ (result.files_modified # <<>> \/ result.files_created # <<>>)
    /\ verified_modified = <<>>
    /\ verified_created = <<>>

\* _verify_files: the result object after the call
VerifyFiles(result, disk) ==
    LET verified_modified == Verified(result.files_modified, disk)
        verified_created  == Verified(result.files_created, disk)
        updated == [result EXCEPT !.files_modified = verified_modified,
                                  !.files_created = verified_created]
    IN  IF VerificationFailed(updated, verified_modified, verified_created)
           /\ updated.verification_passed
        THEN [updated EXCEPT
                !.verification_passed = FALSE,
                !.errors = Append(@, "Verification failed: claimed files do not exist")]
        ELSE updated

\* the results a worker hands to _verify_files
ClaimedResults ==
    {[task_id |-> "T1", success |-> su, files_modified |-> fm, files_created |-> fc,
      tests_run |-> <<>>, verification_passed |-> vp, errors |-> er, logs |-> ""] :
        su \in BOOLEAN, vp \in BOOLEAN,
        fm \in SeqsUpTo(VerifyPaths, MaxClaimed),
        fc \in SeqsUpTo(VerifyPaths, MaxClaimed),
        er \in {<<>>, <<"worker error">>}}

NotVerified == [done |-> FALSE, result |-> <<>>]

\* the worker calls _verify_files(result, working_dir)
CallVerify ==
    /\ ~v_out.done
    /\ v_out' = [done |-> TRUE, result |-> VerifyFiles(v_in.result, v_in.disk)]
    /\ UNCHANGED v_in

----------------------------------------------------------------------------
(* OpenCodeToolWorker._process_tool_usage *)

\* the paths the model's reply and its tool entries name
ToolPaths == {"x.txt", "y.txt"}

\* sorted() on these paths
ToolPathOrder == <<"x.txt", "y.txt">>

\* the tool names of the entries: the four the worker routes, one of them
\* also in capitals, one it does not know, and a missing name
ToolNames == {"write_file", "WRITE_FILE", "read_file", "list_files",
              "execute_bash", "grep", ""}

\* str.lower() on a tool name, line 56
Lower(name) == IF name = "WRITE_FILE" THEN "write_file" ELSE name

\* one entry of tools_used.  arg is the entry's path ("file" or "path"),
\* its command, or its directory, "" when the entry has none; ok is what
\* the tool client answers when the worker routes the entry: success or not
ToolUse(tool, arg, ok) == [tool |-> tool, arg |-> arg, ok |-> ok]

\* the entries: an entry that the worker never routes has ok = TRUE, and
\* the commands run print nothing
ToolUses ==
    {ToolUse(t, a, o) : t \in {"write_file", "read_file"},
                        a \in ToolPaths, o \in BOOLEAN}
    \cup {ToolUse("WRITE_FILE", "x.txt", o) : o \in BOOLEAN}
    \cup {ToolUse("execute_bash", c, o) : c \in {"make", "ls"}, o \in BOOLEAN}
    \cup {ToolUse("list_files", "", o) : o \in BOOLEAN}
    \cup {ToolUse(t, "", TRUE) :
            t \in {"write_file", "WRITE_FILE", "read_file", "execute_bash",
                   "grep", ""}}

\* the elements of a list
ListSet(s) == {s[i] : i \in 1..Len(s)}

\* sorted(set), lines 115-116
SortedPaths(S) == SelectSeq(ToolPathOrder, LAMBDA p : p \in S)

\* the local state of the loop: logs, errors and created_files
ToolAcc(logs, errors, created_files) ==
    [logs |-> logs, errors |-> errors, created_files |-> created_files]

\* one pass of the loop body, lines 56-108
ToolStep(acc, tool_info) ==
    LET tool_name == Lower(tool_info.tool)
        arg == tool_info.arg
        logged == ToolAcc(Append(acc.logs, <<tool_name, arg>>), acc.errors,
                          acc.created_files)
        missing == ToolAcc(acc.logs,
                           Append(acc.errors, <<tool_name, "missing">>),
                           acc.created_files)
        failed == ToolAcc(acc.logs,
                          Append(acc.errors, <<tool_name, "failed">>),
                          acc.created_files)
    IN  IF tool_name = "" THEN acc
        ELSE IF tool_name = "write_file" THEN
            IF arg = "" THEN missing
            ELSE IF tool_info.ok
                 THEN ToolAcc(Append(acc.logs, <<tool_name, arg>>), acc.errors,
                              acc.created_files \cup {arg})
                 ELSE failed
        ELSE IF tool_name \in {"read_file", "execute_bash"} THEN
            IF arg = "" THEN missing
            ELSE IF tool_info.ok THEN logged ELSE failed
        ELSE IF tool_name = "list_files" THEN
            IF tool_info.ok
            THEN ToolAcc(Append(acc.logs, <<tool_name, ".">>), acc.errors,
                         acc.created_files)
            ELSE failed
        ELSE ToolAcc(Append(acc.logs, <<"unsupported", tool_name>>),
                     acc.errors, acc.created_files)

\* the loop over tools_used, lines 55-108, from entry i on
RECURSIVE ToolLoop(_, _, _)
ToolLoop(tools_used, i, acc) ==
    IF i > Len(tools_used) THEN acc
    ELSE ToolLoop(tools_used, i + 1, ToolStep(acc, tools_used[i]))

\* _process_tool_usage(tools_used, working_dir, result_data): the logs it
\* returns and result_data as it leaves it
ProcessToolUsage(tools_used, result_data) ==
    LET created_files == ListSet(result_data.files_created)
        modified_files == ListSet(result_data.files_modified)
        acc == ToolLoop(tools_used, 1, ToolAcc(<<>>, <<>>, created_files))
    IN  [logs |-> acc.logs,
         errors |-> acc.errors,
         success |-> IF acc.errors # <<>> THEN FALSE ELSE result_data.success,
         files_created |-> SortedPaths(acc.created_files),
         files_modified |-> SortedPaths(modified_files)]

\* the parsed replies of the model: what it says it created and modified
ResultData ==
    {[success |-> s, files_created |-> fc, files_modified |-> fm] :
        s \in BOOLEAN,
        fc \in SeqsUpTo(ToolPaths, MaxClaimed),
        fm \in SeqsUpTo(ToolPaths, MaxClaimed)}

NotProcessed == [done |-> FALSE, called |-> FALSE, result |-> <<>>]

\* result_data when _process_tool_usage is not called: the lists are the
\* ones of the reply, in its order and with its repetitions
Unprocessed(result_data) ==
    [logs |-> <<>>,
     errors |-> <<>>,
     success |-> result_data.success,
     files_created |-> result_data.files_created,
     files_modified |-> result_data.files_modified]

\* LocalWorker.execute, lines 73-74: `if tools_used:` - the worker calls
\* _process_tool_usage(tools_used, dir_path, result_data) for a reply that
\* lists tool entries, and leaves result_data alone for one that lists none
CallProcess ==
    /\ ~u_out.done
    /\ u_out' = IF u_in.tools_used # <<>>
                THEN [done |-> TRUE, called |-> TRUE,
                      result |-> ProcessToolUsage(u_in.tools_used, u_in.result_data)]
                ELSE [done |-> TRUE, called |-> FALSE,
                      result |-> Unprocessed(u_in.result_data)]
    /\ UNCHANGED u_in

----------------------------------------------------------------------------
(* Specifications *)

LockInit ==
    /\ now = 0
    /\ locks = [p \in NormKeys |-> NoLock]
    /\ pc = [t \in Threads |-> "idle"]
    /\ call = [t \in Threads |-> NoCall]
    /\ last = NoEvent
    /\ held = [t \in Threads |-> {}]
    /\ disciplined = TRUE

CoordIdle ==
    /\ cpc = [c \in Coords |-> "off"]
    /\ tasks = [c \in Coords |-> <<>>]
    /\ ti = [c \in Coords |-> 1]
    /\ fi = [c \in Coords |-> 1]
    /\ ri = [c \in Coords |-> 1]
    /\ locked_files = [c \in Coords |-> <<>>]
    /\ results = [c \in Coords |-> <<>>]
    /\ cstart = [c \in Coords |-> 0]
    /\ pending = [c \in Coords |-> "none"]
    /\ timed_out = [c \in Coords |-> 0]
    /\ base = [c \in Coords |-> 0]
    /\ wlog = [c \in Coords |-> <<>>]
    /\ observability = [c \in Coords |-> "none"]
    /\ notes = [c \in Coords |-> <<>>]

PlanIdle ==
    /\ p_in = <<>>
    /\ p_out = NotPlanned

VerIdle ==
    /\ v_in = <<>>
    /\ v_out = NotVerified

ToolIdle ==
    /\ u_in = <<>>
    /\ u_out = NotProcessed

\* several threads use one FileLockManager
InitLock == LockInit /\ CoordIdle /\ PlanIdle /\ VerIdle /\ ToolIdle

ThreadStep(t) ==
    \/ StartAcquire(t)
    \/ Poll(t)
    \/ CheckTimeout(t)
    \/ Sleep(t)
    \/ Release(t)
    \/ CheckLocked(t)
    \/ Cleanup(t)

NextLock ==
    /\ Tick \/ \E t \in Threads : ThreadStep(t)
    /\ UNCHANGED <<coordVars, planVars, verVars, toolVars>>

SpecLock == InitLock /\ [][NextLock]_vars

\* acquire_lock calls for locks without expiry whose deadline lies within
\* the horizon of the clock
LiveStart(t) ==
    /\ StartAcquire(t)
    /\ call'[t].expiry = NoExpiry
    /\ now + call'[t].timeout <= MaxTime

\* what a thread inside acquire_lock does next: lines 82-109
AcquireLoop(t) == Poll(t) \/ CheckTimeout(t) \/ Sleep(t)

LiveStep(t) ==
    \/ LiveStart(t)
    \/ AcquireLoop(t)
    \/ Release(t)

NextLive ==
    /\ Tick \/ \E t \in Threads : LiveStep(t)
    /\ UNCHANGED <<coordVars, planVars, verVars, toolVars>>

\* the clock keeps running, and a thread inside acquire_lock is scheduled
\* again: the mutex is held for one table update only and time.sleep(0.01)
\* returns.  Nothing obliges a holder to release
SpecLive ==
    /\ InitLock /\ [][NextLive]_vars
    /\ WF_lockVars(Tick)
    /\ \A t \in Threads : WF_lockVars(AcquireLoop(t))

\* several threads use lock() scopes of one FileLockManager
ScopeStep(t) ==
    \/ StartScope(t)
    \/ Poll(t)
    \/ CheckTimeout(t)
    \/ Sleep(t)
    \/ BodyReturn(t)
    \/ BodyRaise(t)
    \/ ScopeExit(t)
    \/ CheckLocked(t)

NextScope ==
    /\ Tick \/ \E t \in Threads : ScopeStep(t)
    /\ UNCHANGED <<coordVars, planVars, verVars, toolVars>>

SpecScope == InitLock /\ [][NextScope]_vars

\* the table when execute_tasks is called: another user holds the keys pre
HeldBefore(pre, who) ==
    [p \in NormKeys |-> IF p \in pre THEN FileLock(p, NoExpiry, 0, who) ELSE NoLock]

\* one execute_tasks call of coordinator c1 on a FileLockManager in which
\* another user, t1, took some locks before the call and releases keys
\* while the call runs
CoordStart(sinks, lists) ==
    /\ now = 0
    /\ \E pre \in SUBSET NormKeys : locks = HeldBefore(pre, "t1")
    /\ pc = [t \in Threads |-> "idle"]
    /\ call = [t \in Threads |-> NoCall]
    /\ last = NoEvent
    /\ held = [t \in Threads |-> {}]
    /\ disciplined = TRUE
    /\ cpc = [c \in Coords |-> IF c = "c1" THEN "next_task" ELSE "off"]
    /\ \E T \in lists : tasks = [c \in Coords |-> IF c = "c1" THEN T ELSE <<>>]
    /\ ti = [c \in Coords |-> 1]
    /\ fi = [c \in Coords |-> 1]
    /\ ri = [c \in Coords |-> 1]
    /\ locked_files = [c \in Coords |-> <<>>]
    /\ results = [c \in Coords |-> <<>>]
    /\ cstart = [c \in Coords |-> 0]
    /\ pending = [c \in Coords |-> "none"]
    /\ timed_out = [c \in Coords |-> 0]
    /\ base = [c \in Coords |-> 0]
    /\ wlog = [c \in Coords |-> <<>>]
    /\ \E s \in sinks :
          observability = [c \in Coords |-> IF c = "c1" THEN s ELSE "none"]
    /\ notes = [c \in Coords |-> <<>>]
    /\ PlanIdle /\ VerIdle /\ ToolIdle

\* the coordinator is built without an observability client (the default)
InitCoord == CoordStart({"none"}, TaskLists)

\* the coordinator is built with an observability sink
InitSink == CoordStart(Sinks \ {"none"}, TaskLists)

\* the tasks handed to execute_tasks declare dependencies
InitOrder == CoordStart({"none"}, DependentTaskLists)

CoordStep(c) ==
    \/ NextTask(c)
    \/ NextFile(c)
    \/ CPoll(c)
    \/ CCheckTimeout(c)
    \/ CSleep(c)
    \/ ReleaseAfterTimeout(c)
    \/ AfterLocks(c)
    \/ WorkerReturn(c)
    \/ WorkerRaise(c)
    \/ Finally(c)

OtherUserStep(t) ==
    \/ OtherRelease(t)

NextCoord ==
    /\ \/ \E c \in Coords : CoordStep(c) /\ UNCHANGED <<planVars, verVars, toolVars>>
       \/ (CoordTick \/ OtherUserStep("t1")) /\ UNCHANGED <<coordVars, planVars, verVars, toolVars>>

SpecCoord == InitCoord /\ [][NextCoord]_vars

SpecSink == InitSink /\ [][NextCoord]_vars

SpecOrder == InitOrder /\ [][NextCoord]_vars

\* the task lists of coordinators that run side by side: no task or one
SharedTaskLists ==
    {[i \in 1..Len(fs) |-> TaskSpec("T" \o ToString(i), "task", fs[i], <<>>, "medium", <<>>)] :
        fs \in SeqsUpTo(SeqsUpTo(TaskPaths, MaxFiles), 1)}

\* every coordinator runs one execute_tasks call on the one shared
\* FileLockManager, which nobody else uses and which starts empty
InitShared ==
    /\ LockInit
    /\ cpc = [c \in Coords |-> "next_task"]
    /\ tasks \in [Coords -> SharedTaskLists]
    /\ ti = [c \in Coords |-> 1]
    /\ fi = [c \in Coords |-> 1]
    /\ ri = [c \in Coords |-> 1]
    /\ locked_files = [c \in Coords |-> <<>>]
    /\ results = [c \in Coords |-> <<>>]
    /\ cstart = [c \in Coords |-> 0]
    /\ pending = [c \in Coords |-> "none"]
    /\ timed_out = [c \in Coords |-> 0]
    /\ base = [c \in Coords |-> 0]
    /\ wlog = [c \in Coords |-> <<>>]
    /\ observability = [c \in Coords |-> "none"]
    /\ notes = [c \in Coords |-> <<>>]
    /\ PlanIdle /\ VerIdle /\ ToolIdle

NextShared ==
    /\ \/ \E c \in Coords : CoordStep(c)
       \/ CoordTick /\ UNCHANGED coordVars
    /\ UNCHANGED <<planVars, verVars, toolVars>>

SpecShared == InitShared /\ [][NextShared]_vars

\* one call of TaskPlanner.plan
InitPlan ==
    /\ LockInit /\ CoordIdle /\ VerIdle /\ ToolIdle
    /\ \E request \in Requests, max_tasks \in {1, DefaultMaxTasks},
          response \in Responses :
          p_in = [request |-> request, max_tasks |-> max_tasks,
                  response |-> response]
    /\ p_out = NotPlanned

NextPlan ==
    /\ CallPlan
    /\ UNCHANGED <<lockVars, coordVars, verVars, toolVars>>

SpecPlan == InitPlan /\ [][NextPlan]_vars

\* one call of LocalWorker._verify_files
InitVerify ==
    /\ LockInit /\ CoordIdle /\ PlanIdle /\ ToolIdle
    /\ \E result \in ClaimedResults, disk \in SUBSET DiskPaths :
          v_in = [result |-> result, disk |-> disk]
    /\ v_out = NotVerified

NextVerify ==
    /\ CallVerify
    /\ UNCHANGED <<lockVars, coordVars, planVars, toolVars>>

SpecVerify == InitVerify /\ [][NextVerify]_vars

\* the tool step of one OpenCodeToolWorker.execute call: the parsed reply
\* and what the tool client will answer
InitTools ==
    /\ LockInit /\ CoordIdle /\ PlanIdle /\ VerIdle
    /\ \E tools_used \in SeqsUpTo(ToolUses, MaxTools),
          result_data \in ResultData :
          u_in = [tools_used |-> tools_used, result_data |-> result_data]
    /\ u_out = NotProcessed

NextTools ==
    /\ CallProcess
    /\ UNCHANGED <<lockVars, coordVars, planVars, verVars>>

SpecTools == InitTools /\ [][NextTools]_vars

----------------------------------------------------------------------------
(* Properties of Coordinator.execute_tasks, checked under SpecCoord *)

Done(c) == cpc[c] = "done"

\* the results a LockTimeoutError on one of the task's files can produce
TimeoutResults(task) ==
    {LockTimeoutResultArgs(task, f, LockTimeoutError(Normalize(f), CoordTimeout)) :
        f \in {task.files[i] : i \in DOMAIN task.files}}

\* C1: execute_tasks returns (it does not raise), the returned list has one
\* WorkerResult per task of the input list, and result i carries the task_id
\* of task i, whatever the outcomes of the tasks were.
C1_OneResultPerTask ==
    \A c \in Coords :
        /\ cpc[c] # "raised"
        /\ Done(c) =>
              /\ Len(results[c]) = Len(tasks[c])
              /\ \A i \in DOMAIN results[c] :
                    results[c][i].task_id = tasks[c][i].task_id

\* C3: when worker.execute raised for a task, execute_tasks does not raise:
\* no exception is left in flight, and a result with success=False whose
\* errors carry the exception message has been appended for that task.
C3_WorkerExceptionBecomesResult ==
    \A c \in Coords :
        \A j \in DOMAIN wlog[c] :
            wlog[c][j].outcome = "raised" =>
                /\ pending[c] = "none"
                /\ cpc[c] # "raised"
                /\ \E i \in DOMAIN results[c] :
                      /\ results[c][i].task_id = tasks[c][wlog[c][j].task].task_id
                      /\ results[c][i].success = FALSE
                      /\ results[c][i].errors = <<WorkerException>>

\* C4: once a lock acquisition of a task failed with LockTimeoutError, no
\* further file of that task is attempted, its worker is not invoked, and
\* exactly one result - the failed one naming the path - is appended for it.
C4_TimeoutSkipsTask ==
    \A c \in Coords :
        timed_out[c] # 0 =>
            /\ cpc[c] \notin {"acq_poll", "acq_check", "acq_sleep", "in_worker"}
            /\ \A j \in DOMAIN wlog[c] : wlog[c][j].task # timed_out[c]
            /\ Len(results[c]) = base[c] + 1
            /\ results[c][Len(results[c])] \in TimeoutResults(tasks[c][timed_out[c]])

\* C5: when the processing of a task is over - before the next task starts,
\* and when execute_tasks returns or raises - the table holds no record the
\* coordinator inserted; what is still locked is locked by another user.
C5_LocksReleased ==
    \A c \in Coords :
        cpc[c] \in {"next_task", "done", "raised"} =>
            \A k \in NormKeys : locks[k] # NoLock => locks[k].by \notin Coords

\* a call that ended with the exception of a worker which ran although one
\* file of its task had timed out and another was locked
C5_Witness ==
    \E c \in Coords :
        /\ cpc[c] = "raised"
        /\ locked_files[c] # <<>>
        /\ timed_out[c] # 0
        /\ \A k \in NormKeys : locks[k] = NoLock

----------------------------------------------------------------------------
(* Properties of FileLockManager, checked under SpecLock and SpecScope *)

\* thread t takes the step that runs one pass of acquire_lock
PollStep(t) == pc[t] = "acq_poll" /\ pc'[t] # "acq_poll"

\* thread t takes the step that runs the timeout check of acquire_lock
CheckStep(t) == pc[t] = "acq_check" /\ pc'[t] # "acq_check"

\* thread t takes the step that leaves its lock() scope
ExitStep(t) == pc[t] \in {"exit_ok", "exit_exc"} /\ pc'[t] = "idle"

\* C2: as long as locks are taken without expiry and every thread releases
\* only keys it acquired, no two threads are at the same time between their
\* successful acquire_lock(k) and their release_lock(k) of one normalized key.
C2_MutualExclusion ==
    disciplined =>
        \A t1, t2 \in Threads : t1 # t2 => held[t1] \cap held[t2] = {}

\* one thread holds k while another has failed a pass on k
C2_Witness ==
    /\ disciplined
    /\ \E t1, t2 \in Threads :
          /\ t1 # t2
          /\ pc[t2] = "acq_check"
          /\ call[t2].normalized_path \in held[t1]

\* C6: a pass of acquire_lock(k, t2) over a record without expiry does not
\* succeed and leaves the table alone; the timeout check raises
\* LockTimeoutError carrying k and t2 exactly when t2 has elapsed since the
\* call started, else the caller sleeps; a pass that finds no record for k
\* (the holder released) succeeds.
C6_TimeoutThenSuccess ==
    [][\A t \in Threads :
          LET k == call[t].normalized_path
          IN  /\ (PollStep(t) /\ locks[k] # NoLock /\ locks[k].expiry = NoExpiry) =>
                    (locks' = locks /\ pc'[t] = "acq_check" /\ last' = NoEvent)
              /\ CheckStep(t) =>
                    IF now - call[t].start_time >= call[t].timeout
                    THEN /\ last' = Event(t, "LockTimeoutError", k, call[t].timeout, FALSE)
                         /\ pc'[t] = "idle"
                         /\ locks' = locks
                    ELSE /\ last' = NoEvent
                         /\ pc'[t] = "acq_sleep"
              /\ (PollStep(t) /\ locks[k] = NoLock) =>
                    (locks'[k].by = t /\ last'.kind = "lock" /\ last'.who = t)
      ]_vars

\* a second acquire_lock with a positive timeout has just raised while the
\* first acquisition, without expiry, is still in the table
C6_Witness ==
    /\ last.kind = "LockTimeoutError"
    /\ last.timeout >= 1
    /\ locks[last.file_path] # NoLock
    /\ locks[last.file_path].expiry = NoExpiry
    /\ locks[last.file_path].by # last.who

\* C7: a pass of acquire_lock(k) that finds a record whose expiry E is
\* exceeded (now - acquired_at > E) removes it and returns the new lock at
\* that pass, whatever the caller's own timeout and waiting time.
C7_ExpiredLockTakenOver ==
    [][\A t \in Threads :
          LET k == call[t].normalized_path
          IN  (/\ PollStep(t)
               /\ locks[k] # NoLock
               /\ locks[k].expiry # NoExpiry
               /\ now - locks[k].acquired_at > locks[k].expiry) =>
                  /\ locks'[k] = FileLock(k, call[t].expiry, now, t)
                  /\ last' = Event(t, "lock", k, call[t].timeout, TRUE)
                  /\ pc'[t] = "idle"
      ]_vars

\* a caller with a positive timeout has just taken over an expired record
C7_Witness ==
    /\ last.kind = "lock"
    /\ last.purged
    /\ last.timeout >= 1
    /\ locks[last.file_path].by = last.who
    /\ locks[last.file_path].acquired_at = now

\* C8: the step that leaves a lock(k) scope removes the record of k, so
\* that is_locked(k) is false right after it, and reports the body's
\* exception to the caller exactly when the body raised.
C8_ScopeReleases ==
    [][\A t \in Threads :
          ExitStep(t) =>
              LET k == Normalize(call[t].file_path)
              IN  /\ locks'[k] = NoLock
                  /\ ~IsLocked(locks', call[t].file_path, now').value
                  /\ last' = Event(t, IF pc[t] = "exit_exc" THEN "raised" ELSE "returned",
                                   k, 0, FALSE)
      ]_vars

\* a scope whose body raised has just been left and its key is free
C8_Witness ==
    /\ last.kind = "raised"
    /\ locks[last.file_path] = NoLock
    /\ \E k \in RawPaths :
          Normalize(k) = last.file_path /\ ~IsLocked(locks, k, now).value

----------------------------------------------------------------------------
(* TaskPlanner.plan, checked under SpecPlan *)

\* C9: whatever the completion call did, plan returns a non-empty list of
\* TaskSpecs and does not raise.
C9_PlanNeverRaises ==
    p_out.done => (p_out.raised = "" /\ p_out.plan # <<>>)

----------------------------------------------------------------------------
(* LocalWorker._verify_files, checked under SpecVerify *)

\* the paths a result claims
Claimed(result) ==
    {result.files_modified[i] : i \in DOMAIN result.files_modified}
    \cup {result.files_created[i] : i \in DOMAIN result.files_created}

\* C10: when the result claims files and none of the claimed paths exists
\* under the working directory, _verify_files leaves both lists empty,
\* verification_passed False and errors non-empty.
C10_VerificationDowngrade ==
    (/\ v_out.done
     /\ Claimed(v_in.result) # {}
     /\ {JoinPath(WorkingDir, p) : p \in Claimed(v_in.result)} \cap v_in.disk = {}) =>
        /\ v_out.result.files_modified = <<>>
        /\ v_out.result.files_created = <<>>
        /\ v_out.result.verification_passed = FALSE
        /\ v_out.result.errors # <<>>

----------------------------------------------------------------------------
(* The observability sink of Coordinator.execute_tasks, checked under SpecSink *)

\* C11: with a sink attached, a notification that fails changes nothing:
\* execute_tasks raises only where it raises without a sink (the worker
\* itself raised), and every result a worker returned is in the results.
C11_SinkFailureHarmless ==
    \A c \in Coords :
        observability[c] # "none" =>
            /\ cpc[c] = "raised" =>
                  /\ wlog[c] # <<>>
                  /\ wlog[c][Len(wlog[c])].outcome = "raised"
            /\ \A j \in DOMAIN wlog[c] :
                  wlog[c][j].outcome # "raised" =>
                      \E i \in DOMAIN results[c] :
                          results[c][i] =
                              WorkerReturned(tasks[c][wlog[c][j].task],
                                             wlog[c][j].outcome = "success")

----------------------------------------------------------------------------
(* More of TaskPlanner.plan, checked under SpecPlan *)

\* the text json.loads is given
RawText(response) == ExtractBraces(ExtractFence(response.content))

\* planning failed: the completion call raised, the text is empty, it is not
\* parseable JSON, or the "tasks" list yields no task
PlanningFailed(inp) ==
    \/ inp.response.raises
    \/ /\ ~inp.response.raises
       /\ LET raw_text == RawText(inp.response)
              payload == JsonLoads(raw_text)
          IN  \/ IsEmptyText(raw_text)
              \/ payload.kind = "JSONDecodeError"
              \/ /\ payload.kind = "obj"
                 /\ payload.tasks_kind \in {"missing", "str", "list"}
                 /\ \A i \in 1..Len(Truncate(payload.entries, inp.max_tasks)) :
                       EntryFails(payload.entries[i])

\* C12: whenever planning fails, plan returns exactly one TaskSpec: task_id
\* "T1", description "Implement user request: " followed by the request,
\* success_criteria ["Request completed and verified"], budget medium, no
\* dependencies.
C12_FallbackPlanShape ==
    (p_out.done /\ PlanningFailed(p_in)) =>
        /\ p_out.raised = ""
        /\ Len(p_out.plan) = 1
        /\ p_out.plan[1].task_id = "T1"
        /\ p_out.plan[1].description =
              "Implement user request: " \o RequestText(p_in.request)
        /\ p_out.plan[1].success_criteria = <<"Request completed and verified">>
        /\ p_out.plan[1].budget = "medium"
        /\ p_out.plan[1].dependencies = <<>>

\* plan("add readme") returned after the completion gave text that is not JSON
C12_Witness ==
    /\ p_out.done
    /\ ~p_in.response.raises
    /\ RequestText(p_in.request) = "add readme"
    /\ JsonLoads(RawText(p_in.response)).kind = "JSONDecodeError"
    /\ Len(p_out.plan) = 1
    /\ p_out.plan[1].description = "Implement user request: add readme"

----------------------------------------------------------------------------
(* More of FileLockManager, checked under SpecLock *)

\* the step just taken was a release_lock call
ReleaseKinds == {"released", "not_held", "KeyError"}

\* C13: release_lock never raises and leaves no record under its key; a
\* release_lock(k) that follows a release_lock(k), or that finds no record
\* under k, changes nothing in the lock table.
C13_ReleaseIdempotent ==
    [][last'.kind \in ReleaseKinds =>
          /\ last'.kind \in {"released", "not_held"}
          /\ locks'[last'.file_path] = NoLock
          /\ locks[last'.file_path] = NoLock => locks' = locks
          /\ (last.kind \in ReleaseKinds /\ last.file_path = last'.file_path) =>
                (last'.kind = "not_held" /\ locks' = locks)]_vars

\* a release_lock on a key without a record returned while another key
\* stays locked
C13_Witness ==
    /\ last.kind = "not_held"
    /\ locks[last.file_path] = NoLock
    /\ \E k \in NormKeys : locks[k] # NoLock

\* C14: a pass of acquire_lock(k) looks at the record of k alone: it
\* succeeds when k has no record, whatever is recorded under the other
\* keys, it fails only over a record of k itself, and it leaves the records
\* of all other keys as they are.
C14_DistinctKeysIndependent ==
    [][\A t \in Threads :
          PollStep(t) =>
              LET k == call[t].normalized_path
              IN  /\ \A k2 \in NormKeys \ {k} : locks'[k2] = locks[k2]
                  /\ locks[k] = NoLock =>
                        /\ locks'[k] = FileLock(k, call[t].expiry, now, t)
                        /\ last' = Event(t, "lock", k, call[t].timeout, FALSE)
                        /\ pc'[t] # "acq_check"
                  /\ pc'[t] = "acq_check" => locks[k] # NoLock
      ]_vars

\* an acquire_lock has just succeeded while the other thread holds a record
\* without expiry under a different key
C14_Witness ==
    /\ last.kind = "lock"
    /\ ~last.purged
    /\ locks[last.file_path].by = last.who
    /\ \E k2 \in NormKeys \ {last.file_path} :
          /\ locks[k2] # NoLock
          /\ locks[k2].by # last.who
          /\ locks[k2].expiry = NoExpiry

----------------------------------------------------------------------------
(* Termination of acquire_lock, checked under SpecLive *)

\* C15: every acquire_lock call ends - it returns a lock or raises
\* LockTimeoutError - also when the holder of the key never releases and
\* the held lock has no expiry.
C15_AcquireTerminates ==
    \A t \in Threads : (pc[t] # "idle") ~> (pc[t] = "idle")

\* a call has just ended in LockTimeoutError after waiting for a lock that
\* has no expiry and was not released
C15_Witness ==
    /\ last.kind = "LockTimeoutError"
    /\ last.timeout >= 1
    /\ pc[last.who] = "idle"
    /\ locks[last.file_path] # NoLock
    /\ locks[last.file_path].expiry = NoExpiry
    /\ locks[last.file_path].acquired_at < now

----------------------------------------------------------------------------
(* Task ids of a plan, checked under SpecPlan *)

\* C16: the TaskSpecs of a returned plan have pairwise distinct task_ids,
\* also when the model's entries repeat an id or name the id that another
\* entry gets by default.
C16_TaskIdsDistinct ==
    (p_out.done /\ p_out.raised = "") =>
        \A i, j \in DOMAIN p_out.plan :
            i # j => p_out.plan[i].task_id # p_out.plan[j].task_id

----------------------------------------------------------------------------
(* Order of execution, checked under SpecOrder *)

\* C17: the worker is invoked for the task the loop is at, after every
\* invocation for an earlier list index and none for a later one, and the
\* loop moves from task i to task i+1 only out of the finally block of
\* task i, when the coordinator holds no lock - whatever the tasks declare
\* as dependencies.
C17_ListOrder ==
    [][\A c \in Coords :
          /\ wlog'[c] # wlog[c] =>
                /\ Len(wlog'[c]) = Len(wlog[c]) + 1
                /\ SubSeq(wlog'[c], 1, Len(wlog[c])) = wlog[c]
                /\ wlog'[c][Len(wlog'[c])].task = ti[c]
                /\ cpc[c] = "in_worker"
                /\ \A j \in DOMAIN wlog[c] : wlog[c][j].task < ti[c]
          /\ ti'[c] # ti[c] =>
                /\ ti'[c] = ti[c] + 1
                /\ cpc[c] = "finally"
                /\ cpc'[c] = "next_task"
                /\ \A k \in NormKeys : locks'[k].by # c
      ]_vars

\* the worker ran for a task and then for the later task which the first
\* names as its dependency
C17_Witness ==
    \E c \in Coords :
        \E i, j \in DOMAIN wlog[c] :
            /\ i < j
            /\ wlog[c][i].task < wlog[c][j].task
            /\ tasks[c][wlog[c][i].task].dependencies =
                  <<tasks[c][wlog[c][j].task].task_id>>

----------------------------------------------------------------------------
(* A lock timeout and the rest of the batch, checked under SpecCoord *)

\* a LockTimeoutError was handled for task i of coordinator c
TimedOutOn(c, i) ==
    \E j \in DOMAIN results[c] : results[c][j] \in TimeoutResults(tasks[c][i])

\* C18: once a LockTimeoutError was handled for a task, execute_tasks still
\* goes through the rest of the list: it does not raise, and when it
\* returns every task after that one has a result of its own.
C18_TimeoutDoesNotAbort ==
    \A c \in Coords :
        \A i \in DOMAIN tasks[c] :
            TimedOutOn(c, i) =>
                /\ cpc[c] # "raised"
                /\ Done(c) =>
                      \A n \in (i + 1)..Len(tasks[c]) :
                          \E j \in DOMAIN results[c] :
                              results[c][j].task_id = tasks[c][n].task_id

----------------------------------------------------------------------------
(* The file lists after _verify_files, checked under SpecVerify *)

\* the full path lies under the working directory
UnderWorkingDir(full_path) ==
    \E p \in VerifyPaths : ~IsAbsolute(p) /\ full_path = WorkingDir \o "/" \o p

\* the entries of a claimed list whose paths exist under the working
\* directory, in their order
ExistingUnder(claimed, disk) ==
    LET Keeps(file_path) ==
            /\ JoinPath(WorkingDir, file_path) \in disk
            /\ UnderWorkingDir(JoinPath(WorkingDir, file_path))
    IN  SelectSeq(claimed, Keeps)

\* C19: after _verify_files, files_modified and files_created are exactly
\* the claimed entries whose paths exist under the working directory, in
\* their original order and with nothing added.
C19_VerifiedListsExact ==
    v_out.done =>
        /\ v_out.result.files_modified =
              ExistingUnder(v_in.result.files_modified, v_in.disk)
        /\ v_out.result.files_created =
              ExistingUnder(v_in.result.files_created, v_in.disk)

----------------------------------------------------------------------------
(* The worker and the task's locks, checked under SpecCoord *)

\* C20: while worker.execute runs for a task, every acquisition of the task
\* succeeded: no file of the task had a LockTimeoutError and locked_files
\* lists every file the task declares.
C20_WorkerHoldsAllLocks ==
    \A c \in Coords :
        cpc[c] = "in_worker" =>
            /\ timed_out[c] = 0
            /\ locked_files[c] = CurTask(c).files

----------------------------------------------------------------------------
(* Coordinators that share one FileLockManager, checked under SpecShared *)

\* coordinator c takes a step of one of its release loops (lines 100-101,
\* lines 134-135) that calls release_lock
ReleaseStepOf(c) ==
    /\ cpc[c] \in {"rel_timeout", "finally"}
    /\ ri'[c] = ri[c] + 1

\* C21: a release_lock call of a coordinator removes no record that another
\* caller inserted - on the lock-timeout path and in the final cleanup that
\* follows it as well.
C21_ReleasesOnlyOwn ==
    [][\A c \in Coords :
          ReleaseStepOf(c) =>
              \A k \in NormKeys :
                  (locks[k] # NoLock /\ locks'[k] = NoLock) => locks[k].by = c
      ]_vars

----------------------------------------------------------------------------
(* A lock() scope and the records of others, checked under SpecScope *)

\* C22: the step that leaves a lock(k) scope leaves every record in place
\* that another caller inserted - also the record of a caller that took k
\* over after the scope's own record had expired.
C22_ScopeExitKeepsOthers ==
    [][\A t \in Threads :
          ExitStep(t) =>
              \A k \in NormKeys :
                  (locks[k] # NoLock /\ locks[k].by # t) => locks'[k] = locks[k]
      ]_vars

----------------------------------------------------------------------------
(* The notifications of execute_tasks, checked under SpecSink *)

\* the worker_completed notifications the sink of c took for task i
CompletedNotes(c, i) ==
    {n \in DOMAIN notes[c] :
        notes[c][n].method = "worker_completed" /\ notes[c][n].task = i}

\* the task_assigned notifications the sink of c took for task i
AssignedNotes(c, i) ==
    {n \in DOMAIN notes[c] :
        notes[c][n].method = "task_assigned" /\ notes[c][n].task = i}

\* C23: with a sink attached, once worker.execute has finished for a task -
\* from then on, so before the task's locks are released - the sink has
\* taken exactly one worker_completed notification for the task, carrying
\* the success flag of the task's result (false when the worker raised);
\* and while a task's locks are being acquired the sink has taken the
\* task_assigned notification of that task.
C23_NotificationsPerTask ==
    \A c \in Coords :
        observability[c] # "none" =>
            /\ \A j \in DOMAIN wlog[c] :
                  /\ Cardinality(CompletedNotes(c, wlog[c][j].task)) = 1
                  /\ \A n \in CompletedNotes(c, wlog[c][j].task) :
                        notes[c][n].success =
                            IF wlog[c][j].outcome = "success" THEN "true" ELSE "false"
            /\ cpc[c] \in {"next_file", "acq_poll", "acq_check", "acq_sleep"} =>
                  Cardinality(AssignedNotes(c, ti[c])) = 1

----------------------------------------------------------------------------
(* Default task ids, checked under SpecPlan *)

\* the entries plan loops over: the truncated "tasks" array of a response
\* that parsed to an object, else none
LoopEntries(inp) ==
    IF inp.response.raises \/ IsEmptyText(RawText(inp.response))
    THEN <<>>
    ELSE LET payload == JsonLoads(RawText(inp.response))
         IN  IF payload.kind = "obj" /\ payload.tasks_kind \in {"str", "list"}
             THEN Truncate(payload.entries, inp.max_tasks)
             ELSE <<>>

\* how many of the first i entries were coerced to a TaskSpec
Coerced(entries, i) == Cardinality({j \in 1..i : ~EntryFails(entries[j])})

\* C24: a coerced entry without a task_id gets the id T{p+1}, p being its
\* zero-based position in the truncated tasks array, also when entries
\* before it failed coercion and were skipped.
C24_DefaultIdByPosition ==
    p_out.done =>
        LET entries == LoopEntries(p_in)
        IN  \A i \in DOMAIN entries :
                (~EntryFails(entries[i]) /\ IdFalsy(entries[i])) =>
                    p_out.plan[Coerced(entries, i)].task_id = "T" \o ToString(i)

----------------------------------------------------------------------------
(* The instant of expiry, checked under SpecLock *)

\* C25: a record with expiry E is live exactly when now - acquired_at < E:
\* is_expired reports it expired from the instant now - acquired_at = E on,
\* is_locked answers False and removes it, and a pass of acquire_lock
\* replaces it.
C25_ExpiryBoundary ==
    \A p \in RawPaths :
        LET k == Normalize(p)
            live == now - locks[k].acquired_at < locks[k].expiry
        IN  (locks[k] # NoLock /\ locks[k].expiry # NoExpiry) =>
                /\ IsExpired(locks[k], now) = ~live
                /\ IsLocked(locks, p, now).value = live
                /\ ~live => IsLocked(locks, p, now).table[k] = NoLock
                /\ ~live => TryAcquire(locks, k, NoExpiry, now, "t1").purged

----------------------------------------------------------------------------
(* A lock() scope that fails to acquire, checked under SpecScope *)

\* C26: when the acquisition of a lock(k) scope ends in LockTimeoutError,
\* the failed scope changes nothing in the lock table: each failed poll
\* found a holder's record of k and left the table as it was, and the step
\* that raises LockTimeoutError out of the scope releases nothing.
C26_FailedScopeKeepsTable ==
    [][\A t \in Threads :
          call[t].scoped =>
              /\ (PollStep(t) /\ pc'[t] = "acq_check") =>
                    /\ locks' = locks
                    /\ locks[call[t].normalized_path] # NoLock
              /\ (CheckStep(t) /\ last'.kind = "LockTimeoutError") =>
                    /\ locks' = locks
                    /\ pc'[t] = "idle"
      ]_vars

\* a lock(k) scope has just failed with LockTimeoutError while another
\* lock(k) scope is inside its body and still has its record
C26_Witness ==
    /\ last.kind = "LockTimeoutError"
    /\ pc[last.who] = "idle"
    /\ \E t \in Threads :
          /\ t # last.who
          /\ pc[t] = "body"
          /\ Normalize(call[t].file_path) = last.file_path
          /\ locks[last.file_path].by = t

----------------------------------------------------------------------------
(* Properties of OpenCodeToolWorker._process_tool_usage, under SpecTools *)

\* the write_file entries of tools_used that the tool client performed
\* with success, by path
WrittenPaths(tools_used) ==
    {tools_used[i].arg : i \in {j \in 1..Len(tools_used) :
        /\ Lower(tools_used[j].tool) = "write_file"
        /\ tools_used[j].arg # ""
        /\ tools_used[j].ok}}

\* C27: after tool processing, files_created and files_modified hold only
\* paths of write actions that were performed with success; a path the
\* model only lists in its reply is not in the recomputed lists.
C27_OnlyPerformedWrites ==
    (u_out.done /\ u_out.called) =>
        \A p \in ListSet(u_out.result.files_created)
                 \cup ListSet(u_out.result.files_modified) :
            p \in WrittenPaths(u_in.tools_used)

----------------------------------------------------------------------------
(* Live records and the sweep, checked under SpecLock *)

\* C28: a live record - one without expiry or whose expiry the code does not
\* yet see reached - changes or leaves the table only in a release_lock step
\* on its key; acquire_lock, is_locked and cleanup_expired_locks leave it as
\* it is.  cleanup_expired_locks returns the number of records it removed,
\* and each of them was expired.
C28_LiveRecordsStay ==
    [][/\ \A k \in NormKeys :
            (locks[k] # NoLock /\ ~IsExpired(locks[k], now) /\ locks'[k] # locks[k]) =>
                (last'.kind = "released" /\ last'.file_path = k)
       /\ last'.kind = "cleaned" =>
            LET removed == {k \in NormKeys : locks[k] # NoLock /\ locks'[k] = NoLock}
            IN  /\ last'.count = Cardinality(removed)
                /\ \A k \in removed : IsExpired(locks[k], now)
                /\ \A k \in NormKeys \ removed : locks'[k] = locks[k]
      ]_vars

\* cleanup_expired_locks has just removed an expired record and returned 1,
\* and a live record with an expiry is still in the table
C28_Witness ==
    /\ last.kind = "cleaned"
    /\ last.count = 1
    /\ \E k \in NormKeys :
          /\ locks[k] # NoLock
          /\ locks[k].expiry # NoExpiry
          /\ ~IsExpired(locks[k], now)

----------------------------------------------------------------------------
(* Termination of concurrent execute_tasks calls *)

\* a time stamp seen from a clock whose origin is moved forward by
\* CoordTimeout: stamps before the new origin are read as the origin
Rebased(stamp) == IF stamp > CoordTimeout THEN stamp - CoordTimeout ELSE 0

\* time passes at the end of the modelled clock range: CoordTimeout seconds
\* go by and the origin of the clock moves by as much, so `now` keeps its
\* value and every stored time stamp moves back.  acquire_lock reads time
\* only as time.time() - start_time > timeout (line 104), the coordinator's
\* locks have no expiry, and a wait that is longer than MaxCoordTime is
\* past its timeout like one of exactly MaxCoordTime
RebaseTick ==
    /\ now + CoordTimeout > MaxCoordTime
    /\ \E c \in Coords : cpc[c] \in {"acq_poll", "acq_check", "acq_sleep"}
    /\ cstart' = [c \in Coords |-> Rebased(cstart[c])]
    /\ locks' = [k \in NormKeys |->
                    IF locks[k] = NoLock THEN NoLock
                    ELSE [locks[k] EXCEPT !.acquired_at = Rebased(@)]]
    /\ UNCHANGED <<now, pc, call, last, held, disciplined>>
    /\ UNCHANGED <<cpc, tasks, ti, fi, ri, locked_files, results, pending,
                   timed_out, base, wlog, observability, notes>>

\* the clock of the concurrent calls
SharedTick ==
    \/ CoordTick /\ UNCHANGED coordVars
    \/ RebaseTick

NextSharedLive ==
    /\ \/ \E c \in Coords : CoordStep(c)
       \/ SharedTick
    /\ UNCHANGED <<planVars, verVars, toolVars>>

\* what keeps the calls going: the clock keeps running while a call waits
\* in acquire_lock, and every coordinator thread is scheduled again -
\* acquire_lock holds the mutex for one table update only, time.sleep(0.01)
\* returns, and every worker.execute call returns or raises
SpecSharedLive ==
    /\ InitShared /\ [][NextSharedLive]_vars
    /\ WF_vars(SharedTick /\ UNCHANGED <<planVars, verVars, toolVars>>)
    /\ \A c \in Coords :
          WF_vars(CoordStep(c) /\ UNCHANGED <<planVars, verVars, toolVars>>)

\* the execute_tasks call of coordinator c has returned or raised
Ended(c) == cpc[c] \in {"done", "raised"}

\* C29: execute_tasks calls that run concurrently on one FileLockManager
\* all end - each returns or raises - also when their tasks name the same
\* files in opposite orders: no coordinator waits for another forever.
C29_AllTerminate ==
    \A c \in Coords : <>Ended(c)


\* both calls have ended after their tasks named the two files in opposite
\* orders and one of them ran into a LockTimeoutError
C29_Witness ==
    /\ \A c \in Coords : Ended(c)
    /\ Len(tasks["c1"]) = 1 /\ tasks["c1"][1].files = <<"a.txt", "b.txt">>
    /\ Len(tasks["c2"]) = 1 /\ tasks["c2"][1].files = <<"b.txt", "a.txt">>
    /\ \E c \in Coords : \E i \in 1..Len(results[c]) :
          results[c][i] \in TimeoutResults(tasks[c][1])

----------------------------------------------------------------------------
(* One execute_tasks call that has the lock table to itself *)

\* coordinator c1 runs one execute_tasks call on a FileLockManager that
\* starts empty and that nobody else uses
InitAlone ==
    /\ InitCoord
    /\ locks = HeldBefore({}, "t1")

SpecAlone == InitAlone /\ [][NextShared]_vars

\* no task of the list names one file key twice
NoDuplicateKeys(T) ==
    \A i \in 1..Len(T) :
        \A m, n \in 1..Len(T[i].files) :
            m # n => Normalize(T[i].files[m]) # Normalize(T[i].files[n])

\* the tasks for which worker.execute was called
Invoked(c) == {wlog[c][e].task : e \in 1..Len(wlog[c])}

\* C30: in one execute_tasks call that has the lock table to itself and
\* whose tasks name no file key twice, no acquire_lock ever waits or times
\* out, the table is empty whenever the next task is taken, and once the
\* call has ended the worker was invoked for every task of the list - also
\* for consecutive tasks that name the same file.
C30_AloneNeverTimesOut ==
    NoDuplicateKeys(tasks["c1"]) =>
        /\ cpc["c1"] \notin {"acq_check", "acq_sleep", "rel_timeout"}
        /\ \A i \in 1..Len(results["c1"]) : \A j \in 1..Len(tasks["c1"]) :
              results["c1"][i] \notin TimeoutResults(tasks["c1"][j])
        /\ cpc["c1"] = "next_task" => \A k \in NormKeys : locks[k] = NoLock
        /\ Ended("c1") => Invoked("c1") = 1..Len(tasks["c1"])

====
